---- MODULE Spec2Model ----
(***************************************************************************)
(* Model of the Fabric mod downloader (src/app.py): the registry client    *)
(* fetch_mod_versions, the dependency walk resolve_dependencies and the    *)
(* request handler api_download that calls it once per selected mod.       *)
(*                                                                         *)
(* The Modrinth registry is the environment.  A registry snapshot fixes    *)
(* what every GET answers: a response with a status code and a body, or a  *)
(* transport error (requests raises).  One handler step is one registry    *)
(* call together with the local code around it.                            *)
(***************************************************************************)
EXTENDS Integers, Sequences, FiniteSets, TLC

(***************************************************************************)
(* Bounds of the model.                                                    *)
(***************************************************************************)
\* dependency edges in the whole registry
MaxEdges == 2
\* mods selected in one request
MaxRoots == 2

Projects == {"P1", "P2", "P3"}
ProjectOrder == <<"P1", "P2", "P3">>
SlugOf == [p \in Projects |->
             CASE p = "P1" -> "sodium" [] p = "P2" -> "lithium" [] OTHER -> "fabric-api"]
Slugs == {SlugOf[p] : p \in Projects}
\* the release the registry has versions for, one it has none for, and none given
Supported == "1.20.1"
McVersions == {Supported, "1.19.4"}
DepTypes == {"required", "optional", "incompatible", "embedded"}
Reqs == {1, 2}

NextProject(p) ==
    CASE p = "P1" -> "P2" [] p = "P2" -> "P3" [] OTHER -> "P1"

(***************************************************************************)
(* HTTP: what requests.get gives back.                                     *)
(***************************************************************************)
Response(status, body) == [raised |-> FALSE, status_code |-> status, json |-> body]
ConnectionError == [raised |-> TRUE, status_code |-> 0, json |-> <<>>]

(***************************************************************************)
(* Registry snapshots.  Every project has a current version record and an  *)
(* older one behind it in the version list; at most one project departs    *)
(* from that in one of the ways of Modes.                                  *)
(***************************************************************************)
Modes == {"normal", "empty", "versions404", "nofiles", "project404",
          "versionsError", "projectError", "clash"}

FileName(p) == <<p, "jar">>
DistFile(name, p, n) == [filename |-> name, url |-> <<"cdn", p, n>>]

Edge(target, type) == [project_id |-> target, dependency_type |-> type]

VersionRecord(p, files, deps) ==
    [project_id |-> p, files |-> files, dependencies |-> deps]

CurrentVersion(p, mode, deps) ==
    VersionRecord(p,
        CASE mode = "nofiles" -> <<>>
          [] mode = "clash" -> <<DistFile(FileName(NextProject(p)), p, 0)>>
          [] OTHER -> <<DistFile(FileName(p), p, 0)>>,
        deps)

OldVersion(p) == VersionRecord(p, <<DistFile(<<p, "old", "jar">>, p, 1)>>, <<>>)

ProjectOf(slug) == CHOOSE q \in Projects : SlugOf[q] = slug

\* GET /project/{slug}/version?loaders=["fabric"]&game_versions=["{mc}"]
VersionEndpoint(reg, slug, mc) ==
    LET p == ProjectOf(slug)
        mode == reg.mode[p]
    IN CASE mode = "versionsError" -> ConnectionError
         [] mode = "versions404" -> Response(404, <<>>)
         [] mode = "empty" \/ mc # Supported -> Response(200, <<>>)
         [] OTHER -> Response(200, <<CurrentVersion(p, mode, reg.deps[p]), OldVersion(p)>>)

\* GET /project/{id}
ProjectEndpoint(reg, id) ==
    LET mode == reg.mode[id]
    IN CASE mode = "projectError" -> ConnectionError
         [] mode = "project404" -> Response(404, <<>>)
         [] OTHER -> Response(200, [slug |-> SlugOf[id]])

SeqsUpTo(S, n) == UNION {[1..k -> S] : k \in 0..n}

\* the edges a version of p may carry: to another project, required or of
\* the kind that is not (each project uses one of the three other kinds)
OtherType(p) ==
    CASE p = "P1" -> "optional" [] p = "P2" -> "incompatible" [] OTHER -> "embedded"
EdgesFrom(p) == {Edge(q, t) : q \in Projects \ {p}, t \in {"required", OtherType(p)}}
DepLists(p) == SeqsUpTo(EdgesFrom(p), MaxEdges)

DepGraphs ==
    {[p \in Projects |-> CASE p = "P1" -> a [] p = "P2" -> b [] OTHER -> c] :
        <<a, b, c>> \in {t \in DepLists("P1") \X DepLists("P2") \X DepLists("P3") :
                           Len(t[1]) + Len(t[2]) + Len(t[3]) <= MaxEdges}}

ModeMaps ==
    {m \in [Projects -> Modes] :
        \E p \in Projects : \A q \in Projects \ {p} : m[q] = "normal"}

Registries == [mode : ModeMaps, deps : DepGraphs]

\* request bodies: the first n mods of the catalogue, for a release or none
RootLists == {SubSeq([i \in 1..3 |-> SlugOf[ProjectOrder[i]]], 1, n) : n \in 0..MaxRoots}
RequestBodies == [mods : RootLists, mc_version : McVersions \cup {""}]

(***************************************************************************)
(* dict as a function on its keys                                          *)
(***************************************************************************)
EmptyDict == [k \in {} |-> k]
\* (a variant: the first write of a key wins)
PutIfAbsent(d, k, v) == [x \in DOMAIN d \cup {k} |-> IF x \in DOMAIN d THEN d[x] ELSE v]
Put(d, k, v) == [x \in DOMAIN d \cup {k} |-> IF x = k THEN v ELSE d[x]]
Update(d, e) == [x \in DOMAIN d \cup DOMAIN e |-> IF x \in DOMAIN e THEN e[x] ELSE d[x]]

(***************************************************************************)
(* State.  registry is the snapshot the Modrinth API answers from.  req[r] *)
(* is one POST /api/download: the handler's position and locals, the       *)
(* locals of the resolve_dependencies call it is in, the zip it writes,    *)
(* its HTTP status, and a record of what it did (expanded, calls, fetched) *)
(* that the code does not keep.                                            *)
(***************************************************************************)
VARIABLES registry, req

vars == <<registry, req>>

NoRegistry == [mode |-> <<>>, deps |-> <<>>]
NoVersion == VersionRecord("", <<>>, <<>>)

IdleRequest ==
    [pc |-> "idle", body |-> [mods |-> <<>>, mc_version |-> ""], snapshot |-> NoRegistry,
     i |-> 0, files_to_download |-> EmptyDict, status |-> 0,
     deps_files |-> EmptyDict, to_process |-> <<>>, processed_projects |-> {},
     ver |-> NoVersion, d |-> 0, slug |-> "",
     pending |-> {}, archive |-> EmptyDict, fetched |-> EmptyDict,
     expanded |-> <<>>, calls |-> {}]

Init ==
    /\ registry \in Registries
    /\ req = [r \in Reqs |-> IdleRequest]

(***************************************************************************)
(* Registry client                                                         *)
(***************************************************************************)
\* fetch_mod_versions: the body on 200, [] on any other status; a transport
\* error of requests.get is not caught
fetch_mod_versions(reg, slug, mc) ==
    LET resp == VersionEndpoint(reg, slug, mc)
    IN IF resp.raised THEN [raised |-> TRUE, value |-> <<>>]
       ELSE IF resp.status_code # 200 THEN [raised |-> FALSE, value |-> <<>>]
       ELSE [raised |-> FALSE, value |-> resp.json]

\* versions[0], "take latest compatible version" (a variant: versions[-1])
OldestVersion(versions) == versions[Len(versions)]
LatestVersion(versions) == versions[1]

\* dep["dependency_type"] == "required" (a variant: no test of the type)
AnyType(dep) == TRUE
IsRequired(dep) == dep.dependency_type = "required"

\* project_id in processed_projects (a variant: no visited-set)
NeverProcessed(project_id, processed) == FALSE
AlreadyProcessed(project_id, processed) == project_id \in processed

\* processed_projects = set(): nothing a former call left is kept
\* (a variant: a set that outlives the call)
KeepProcessed(left) == left
NewProcessed(left) == {}

\* continue in the loop over mod_slugs: on to slug i + 1 of n
\* (a variant: break)
BreakSlugs(i, n) == n + 1
ContinueSlugs(i, n) == i + 1

\* continue in the loop over dependencies: on to dependency d + 1 of n
\* (a variant: break)
BreakDependencies(d, n) == n + 1
ContinueDependencies(d, n) == d + 1

\* not files_to_download (a variant: no test)
NeverEmpty(files) == FALSE
NothingToDownload(files) == DOMAIN files = {}

\* add_version_files: files_to_download[f["filename"]] = f["url"], in order
RECURSIVE add_version_files(_, _)
add_version_files(files, dict) ==
    IF files = <<>> THEN dict
    ELSE add_version_files(Tail(files), Put(dict, Head(files).filename, Head(files).url))

\* a record of a registry call: the endpoint, its argument, and the root or
\* the dependency edge it was made for
RootCause == [from |-> "", dep |-> Edge("", "")]
VersionCall(slug, mc, cause) ==
    [op |-> "version", arg |-> slug, loaders |-> <<"fabric">>, mc |-> mc, cause |-> cause]
ProjectCall(id, cause) ==
    [op |-> "project", arg |-> id, loaders |-> <<>>, mc |-> "", cause |-> cause]

\* line 82: the mc_version of the call is the one passed on for a
\* dependency (a variant: another release is asked for)
OtherRelease(mc_version) == "1.19.4"
SameRelease(mc_version) == mc_version

\* what earlier resolve_dependencies calls left behind in memory
LeftProcessed == UNION {req[q].processed_projects : q \in Reqs}

Set(r, new) == req' = [req EXCEPT ![r] = new]

Done(r) == req[r].pc = "done"

Fail500(R, call) == [R EXCEPT !.pc = "done", !.status = 500, !.calls = @ \cup {call}]

(***************************************************************************)
(* api_download                                                            *)
(***************************************************************************)
\* line 222: not mc_version or not mod_slugs (a variant: only the list of
\* mods is looked at)
NoMods(body) == body.mods = <<>>
BadRequest(body) == body.mc_version = "" \/ body.mods = <<>>

\* lines 218-226: read the body, reject it or start the loop over mod_slugs
Submit(r, body) ==
    /\ req[r].pc = "idle"
    /\ UNCHANGED registry
    /\ LET R == [req[r] EXCEPT !.body = body, !.snapshot = registry]
       IN IF BadRequest(body)
          THEN Set(r, [R EXCEPT !.pc = "done", !.status = 400])
          ELSE Set(r, [R EXCEPT !.pc = "roots", !.i = 1, !.files_to_download = EmptyDict])

\* lines 228-233: the next slug of mod_slugs; skip it, or enter
\* resolve_dependencies (lines 54-61) with its newest version
FetchRoot(r) ==
    LET R == req[r]
        n == Len(R.body.mods)
    IN
    /\ R.pc = "roots"
    /\ R.i <= n
    /\ UNCHANGED registry
    /\ LET slug == R.body.mods[R.i]
           call == VersionCall(slug, R.body.mc_version, RootCause)
           versions == fetch_mod_versions(registry, slug, R.body.mc_version)
       IN IF versions.raised THEN Set(r, Fail500(R, call))
          ELSE IF versions.value = <<>>
          THEN Set(r, [R EXCEPT !.i = ContinueSlugs(R.i, n), !.calls = @ \cup {call}])
          ELSE Set(r, [R EXCEPT !.pc = "loop", !.calls = @ \cup {call},
                                !.deps_files = EmptyDict,
                                !.to_process = <<LatestVersion(versions.value)>>,
                                !.processed_projects = NewProcessed(LeftProcessed),
                                !.ver = NoVersion, !.d = 0, !.slug = ""])

Without(seq, k) == SubSeq(seq, 1, k - 1) \o SubSeq(seq, k + 1, Len(seq))

\* what the removal of element k leaves on the frontier (a variant: a
\* removal that cuts the frontier at k)
CutAt(seq, k) == SubSeq(seq, 1, k - 1)
Remaining(seq, k) == Without(seq, k)

\* line 68: processed_projects.add(project_id) (a variant: the set is
\* replaced by the one project)
Replaced(processed, project_id) == {project_id}
Added(processed, project_id) == processed \cup {project_id}

\* lines 63-70: remove a version from the frontier; drop it if its project
\* is processed, else mark it, add its files and start on its dependencies
PopAt(r, k) ==
    LET R == req[r]
    IN
    /\ R.pc = "loop"
    /\ k \in DOMAIN R.to_process
    /\ UNCHANGED registry
    /\ LET ver == R.to_process[k]
           rest == Remaining(R.to_process, k)
       IN IF AlreadyProcessed(ver.project_id, R.processed_projects)
          THEN Set(r, [R EXCEPT !.to_process = rest])
          ELSE Set(r, [R EXCEPT !.to_process = rest,
                                !.processed_projects = Added(@, ver.project_id),
                                !.deps_files = add_version_files(ver.files, @),
                                !.expanded = Append(@, [call |-> R.i, project |-> ver.project_id]),
                                !.ver = ver, !.d = 1, !.pc = "deps"])

\* line 64: to_process.pop() removes the last element
Pop(r) == PopAt(r, Len(req[r].to_process))

\* lines 73-80: the next dependency; one that is not required is passed
\* over, a required one has its project looked up
Dependency(r) ==
    LET R == req[r]
        n == Len(R.ver.dependencies)
    IN
    /\ R.pc = "deps"
    /\ UNCHANGED registry
    /\ IF R.d > n THEN Set(r, [R EXCEPT !.pc = "loop"])
       ELSE LET dep == R.ver.dependencies[R.d]
                call == ProjectCall(dep.project_id, [from |-> R.ver.project_id, dep |-> dep])
                proj_resp == ProjectEndpoint(registry, dep.project_id)
            IN IF ~IsRequired(dep) THEN Set(r, [R EXCEPT !.d = R.d + 1])
               ELSE IF proj_resp.raised THEN Set(r, Fail500(R, call))
               ELSE IF proj_resp.status_code # 200
               THEN Set(r, [R EXCEPT !.d = ContinueDependencies(R.d, n), !.calls = @ \cup {call}])
               ELSE Set(r, [R EXCEPT !.slug = proj_resp.json.slug, !.pc = "dep_versions",
                                     !.calls = @ \cup {call}])

\* lines 82-85: the versions of the dependency; push the newest, if any
DependencyVersions(r) ==
    LET R == req[r]
        n == Len(R.ver.dependencies)
    IN
    /\ R.pc = "dep_versions"
    /\ UNCHANGED registry
    /\ LET dep == R.ver.dependencies[R.d]
           mc_version == SameRelease(R.body.mc_version)
           call == VersionCall(R.slug, mc_version, [from |-> R.ver.project_id, dep |-> dep])
           dep_versions == fetch_mod_versions(registry, R.slug, mc_version)
       IN IF dep_versions.raised THEN Set(r, Fail500(R, call))
          ELSE IF dep_versions.value = <<>>
          THEN Set(r, [R EXCEPT !.d = ContinueDependencies(R.d, n), !.pc = "deps", !.slug = "",
                                !.calls = @ \cup {call}])
          ELSE Set(r, [R EXCEPT !.d = R.d + 1, !.pc = "deps", !.slug = "",
                                !.calls = @ \cup {call},
                                !.to_process = Append(@, LatestVersion(dep_versions.value))])

\* lines 87, 234: resolve_dependencies returns; merge and go to the next slug
Return(r) ==
    LET R == req[r]
    IN
    /\ R.pc = "loop"
    /\ R.to_process = <<>>
    /\ UNCHANGED registry
    /\ Set(r, [R EXCEPT !.pc = "roots", !.i = R.i + 1,
                        !.files_to_download = Update(@, R.deps_files)])

\* lines 236-241: nothing found is a 404; else the temporary zip is opened
Finish(r) ==
    LET R == req[r]
    IN
    /\ R.pc = "roots"
    /\ R.i > Len(R.body.mods)
    /\ UNCHANGED registry
    /\ IF NothingToDownload(R.files_to_download)
       THEN Set(r, [R EXCEPT !.pc = "done", !.status = 404])
       ELSE Set(r, [R EXCEPT !.pc = "archive", !.pending = DOMAIN R.files_to_download,
                             !.archive = EmptyDict, !.fetched = EmptyDict])

\* r.status_code == 200 (a variant: any answer is written)
AnyStatus(resp) == TRUE
DownloadOk(resp) == resp.status_code = 200

\* lines 242-251: one file of files_to_download.items(); it is written to the
\* zip on a 200, and logged on another status or an exception of the GET
Download(r, resp) ==
    LET R == req[r]
    IN
    /\ R.pc = "archive"
    /\ R.pending # {}
    /\ UNCHANGED registry
    /\ LET filename == CHOOSE f \in R.pending : TRUE
           url == R.files_to_download[filename]
       IN IF ~resp.raised /\ DownloadOk(resp)
          THEN Set(r, [R EXCEPT !.pending = @ \ {filename},
                                !.fetched = Put(@, filename, resp),
                                !.archive = Put(@, filename, url)])
          ELSE Set(r, [R EXCEPT !.pending = @ \ {filename},
                                !.fetched = Put(@, filename, resp)])

\* line 254: send_file of the zip
Send(r) ==
    LET R == req[r]
    IN
    /\ R.pc = "archive"
    /\ R.pending = {}
    /\ UNCHANGED registry
    /\ Set(r, [R EXCEPT !.pc = "done", !.status = 200])

Handler(r) ==
    \/ FetchRoot(r)
    \/ Pop(r)
    \/ Dependency(r)
    \/ DependencyVersions(r)
    \/ Return(r)
    \/ Finish(r)
    \/ Download(r, Response(200, <<>>))
    \/ Send(r)

Next ==
    \/ \E body \in RequestBodies : Submit(1, body)
    \/ Handler(1)

Spec == Init /\ [][Next]_vars

(***************************************************************************)
(* The file downloads of the archive step may fail, with another status    *)
(* than 200 or with an exception of the GET.                               *)
(***************************************************************************)
FailedDownloads == {Response(404, <<>>), ConnectionError}

NextArchive ==
    \/ Next
    \/ \E resp \in FailedDownloads : Download(1, resp)

SpecArchive == Init /\ [][NextArchive]_vars

(***************************************************************************)
(* The loop of resolve_dependencies with another removal order: any        *)
(* element of the frontier may be the one removed (the last, as pop()      *)
(* does, the first, or one in between).                                    *)
(***************************************************************************)
NextAnyOrder ==
    \/ Next
    \/ \E k \in DOMAIN req[1].to_process : PopAt(1, k)

SpecAnyOrder == Init /\ [][NextAnyOrder]_vars

(***************************************************************************)
(* Two requests served at the same time (two threads of the server), each  *)
(* taking its steps, one registry call at a time, in any interleaving, on  *)
(* a registry every endpoint of which answers: the second is the body of   *)
(* the first posted again while the first is being served.                 *)
(***************************************************************************)
Healthy == {reg \in Registries : \A p \in Projects : reg.mode[p] = "normal"}

InitInterleaved ==
    /\ registry \in Healthy
    /\ req = [r \in Reqs |-> IdleRequest]

SubmitAgain ==
    /\ req[1].pc # "idle"
    /\ Submit(2, req[1].body)

NextInterleaved ==
    \/ \E body \in RequestBodies : Submit(1, body)
    \/ SubmitAgain
    \/ \E r \in Reqs : Handler(r)

SpecInterleaved == InitInterleaved /\ [][NextInterleaved]_vars

(***************************************************************************)
(* A second request, after the first has been answered: the same body      *)
(* again, the body with one mod left out, or the same body after the       *)
(* registry has dropped one dangling dependency edge of one version.       *)
(***************************************************************************)
RepeatRequest ==
    /\ Done(1)
    /\ Submit(2, req[1].body)

\* the mod left out is one the registry has no version of
RetryWithout(k) ==
    /\ Done(1)
    /\ k \in DOMAIN req[1].body.mods
    /\ LET versions == fetch_mod_versions(registry, req[1].body.mods[k], req[1].body.mc_version)
       IN ~versions.raised /\ versions.value = <<>>
    /\ Submit(2, [req[1].body EXCEPT !.mods = Without(@, k)])

RemoveEdge(reg, p, k) == [reg EXCEPT !.deps[p] = Without(@, k)]

\* a required edge of the newest version of p that leads nowhere: its
\* project is gone, or has no version for the supported release
Dangling(reg, p, k) ==
    LET dep == reg.deps[p][k]
        resp == ProjectEndpoint(reg, dep.project_id)
        list == VersionEndpoint(reg, SlugOf[dep.project_id], Supported)
    IN /\ dep.dependency_type = "required"
       /\ ~resp.raised
       /\ \/ resp.status_code # 200
          \/ ~list.raised /\ (list.status_code # 200 \/ list.json = <<>>)

RegistryDropsDanglingDependency(p, k) ==
    /\ Done(1)
    /\ req[2].pc = "idle"
    /\ registry = req[1].snapshot
    /\ k \in DOMAIN registry.deps[p]
    /\ Dangling(registry, p, k)
    /\ registry' = RemoveEdge(registry, p, k)
    /\ UNCHANGED req

NextRepeat ==
    \/ Next
    \/ RepeatRequest
    \/ Handler(2)

SpecRepeat == Init /\ [][NextRepeat]_vars

NextRetry ==
    \/ Next
    \/ \E k \in 1..(MaxRoots + 1) : RetryWithout(k)
    \/ Handler(2)

SpecRetry == Init /\ [][NextRetry]_vars

RepeatOnEditedRegistry ==
    /\ registry # req[1].snapshot
    /\ RepeatRequest

NextEdit ==
    \/ Next
    \/ \E p \in Projects : \E k \in 1..(MaxEdges + 1) : RegistryDropsDanglingDependency(p, k)
    \/ RepeatOnEditedRegistry
    \/ Handler(2)

SpecEdit == Init /\ [][NextEdit]_vars

(***************************************************************************)
(* What the claims speak of, read off a registry snapshot                  *)
(***************************************************************************)
\* the loop over mod_slugs ran to its end: a mapping (200) or the 404
Resolved(r) == Done(r) /\ req[r].status \in {200, 404}
InCall(r) == req[r].pc \in {"loop", "deps", "dep_versions"}

Pairs(dict) == {<<k, dict[k]>> : k \in DOMAIN dict}
FilePairs(ver) == {<<ver.files[j].filename, ver.files[j].url>> : j \in DOMAIN ver.files}
FileNames(ver) == {ver.files[j].filename : j \in DOMAIN ver.files}

\* the version list of a package for a release; none if the call fails
VersionList(reg, slug, mc) ==
    LET resp == VersionEndpoint(reg, slug, mc)
    IN IF ~resp.raised /\ resp.status_code = 200 THEN resp.json ELSE <<>>
HasVersions(reg, slug, mc) == VersionList(reg, slug, mc) # <<>>
Index0(reg, slug, mc) == VersionList(reg, slug, mc)[1]

\* a required edge that leads on: its project id resolves to a package
\* with a non-empty version list
Resolves(reg, dep, mc) ==
    LET resp == ProjectEndpoint(reg, dep.project_id)
    IN /\ ~resp.raised
       /\ resp.status_code = 200
       /\ HasVersions(reg, resp.json.slug, mc)
RequiredTargets(reg, slug, mc) ==
    LET ver == Index0(reg, slug, mc)
    IN {SlugOf[ver.dependencies[j].project_id] : j \in
          {k \in DOMAIN ver.dependencies :
              /\ ver.dependencies[k].dependency_type = "required"
              /\ Resolves(reg, ver.dependencies[k], mc)}}

RECURSIVE Closure(_, _, _)
Closure(reg, S, mc) ==
    LET T == S \cup UNION {RequiredTargets(reg, s, mc) : s \in S}
    IN IF T = S THEN S ELSE Closure(reg, T, mc)

RootsWithVersions(reg, mods, mc) ==
    {mods[j] : j \in {k \in DOMAIN mods : HasVersions(reg, mods[k], mc)}}
Reachable(reg, mods, mc) == Closure(reg, RootsWithVersions(reg, mods, mc), mc)
ExpectedFiles(reg, mods, mc) ==
    UNION {FilePairs(Index0(reg, s, mc)) : s \in Reachable(reg, mods, mc)}
NoSharedFilename(reg, mods, mc) ==
    \A s, t \in Reachable(reg, mods, mc) :
        s # t => FileNames(Index0(reg, s, mc)) \cap FileNames(Index0(reg, t, mc)) = {}

\* how often project p was expanded in call k (0: in any call) of request r
Expansions(r, p, k) ==
    Cardinality({j \in DOMAIN req[r].expanded :
                    /\ req[r].expanded[j].project = p
                    /\ k \in {0, req[r].expanded[j].call}})

(***************************************************************************)
(* C1: when no two chosen versions share a filename, the mapping a         *)
(* resolution ends with is exactly the files of the index-0 versions of    *)
(* the projects reachable from the roots that have a version, over         *)
(* required edges that resolve to a package with a version.                *)
(***************************************************************************)
C1_MappingIsRequiredClosure ==
    \A r \in Reqs :
        LET R == req[r]
        IN (Resolved(r) /\ NoSharedFilename(registry, R.body.mods, R.body.mc_version))
           => Pairs(R.files_to_download)
                = ExpectedFiles(registry, R.body.mods, R.body.mc_version)

\* one root, its dependency and the dependency's dependency, all three in
\* the mapping
C1_Witness ==
    /\ Resolved(1)
    /\ req[1].status = 200
    /\ Len(req[1].body.mods) = 1
    /\ NoSharedFilename(registry, req[1].body.mods, req[1].body.mc_version)
    /\ Cardinality(DOMAIN req[1].files_to_download) = 3

(***************************************************************************)
(* C2: on any dependency graph, one with a cycle of required edges         *)
(* included, a resolve_dependencies call ends after finitely many steps:   *)
(* it is never stuck, every step of it lowers a rank that is a natural     *)
(* number, and it is left only by returning on the empty frontier (or by   *)
(* the transport error of C8).  When it has returned, every project        *)
(* reachable from its root was expanded exactly once in it, and no other.  *)
(***************************************************************************)
\* the call for the k-th slug has returned, or the slug was skipped
Returned(r, k) == k \in DOMAIN req[r].body.mods /\ k < req[r].i

ReachableInCall(r, k) ==
    LET mods == req[r].body.mods
        mc == req[r].body.mc_version
    IN IF HasVersions(req[r].snapshot, mods[k], mc)
       THEN Closure(req[r].snapshot, {mods[k]}, mc) ELSE {}

\* the projects expanded in call k of request r
ExpandedIn(r, k) ==
    {req[r].expanded[j].project : j \in {i \in DOMAIN req[r].expanded : req[r].expanded[i].call = k}}

ExpandedOncePerCall(r) ==
    /\ \A i, j \in DOMAIN req[r].expanded :
          req[r].expanded[i] = req[r].expanded[j] => i = j
    /\ \A k \in DOMAIN req[r].body.mods :
          Returned(r, k) => {SlugOf[p] : p \in ExpandedIn(r, k)} = ReachableInCall(r, k)

\* projects not yet processed, then dependencies of the current version
\* not yet passed, then versions waiting, then the position in the body
Rank(R) ==
    LET unprocessed == Cardinality(Projects \ R.processed_projects)
        ahead == IF R.pc \in {"deps", "dep_versions"}
                 THEN Len(R.ver.dependencies) + 1 - R.d ELSE 0
        phase == CASE R.pc = "deps" -> 2 [] R.pc = "dep_versions" -> 1 [] OTHER -> 0
    IN (6 * (MaxEdges + 1) + 3) * unprocessed + 4 * ahead + 2 * Len(R.to_process) + phase

CallStep(r) ==
    /\ (InCall(r) /\ InCall(r)' /\ req'[r] # req[r]) => Rank(req'[r]) < Rank(req[r])
    /\ (InCall(r) /\ ~InCall(r)') =>
          \/ req[r].to_process = <<>> /\ req'[r].pc = "roots"
          \/ req'[r].status = 500

C2_CycleTerminatesEachProjectOnce ==
    /\ [](\A r \in Reqs : ExpandedOncePerCall(r) /\ (InCall(r) => ENABLED Handler(r)))
    /\ [][\A r \in Reqs : CallStep(r)]_vars

\* sodium requires lithium and lithium requires sodium; the call for
\* sodium has returned with both expanded
C2_Witness ==
    /\ Returned(1, 1)
    /\ Expansions(1, "P1", 1) = 1 /\ Expansions(1, "P2", 1) = 1
    /\ "lithium" \in RequiredTargets(registry, "sodium", req[1].body.mc_version)
    /\ "sodium" \in RequiredTargets(registry, "lithium", req[1].body.mc_version)

(***************************************************************************)
(* C3: in one request with two distinct roots that both depend, over       *)
(* required edges, on the same project, that project is expanded exactly   *)
(* once in the whole request.                                              *)
(***************************************************************************)
SharedDependency(reg, mods, mc, p) ==
    \E j, k \in DOMAIN mods :
        /\ mods[j] # mods[k]
        /\ SlugOf[p] \notin {mods[j], mods[k]}
        /\ HasVersions(reg, mods[j], mc) /\ HasVersions(reg, mods[k], mc)
        /\ SlugOf[p] \in Closure(reg, {mods[j]}, mc) \cap Closure(reg, {mods[k]}, mc)

C3_SharedProjectExpandedOnce ==
    \A r \in Reqs : \A p \in Projects :
        (Resolved(r) /\ SharedDependency(registry, req[r].body.mods, req[r].body.mc_version, p))
        => Expansions(r, p, 0) = 1

(***************************************************************************)
(* C4: an edge that is not required causes no project lookup and no        *)
(* version-list fetch, and every file of the mapping is a file of a root   *)
(* or of a project reached over required edges.                            *)
(***************************************************************************)
C4_OnlyRequiredEdgesAreFollowed ==
    \A r \in Reqs :
        /\ \A c \in req[r].calls :
              c.cause = RootCause \/ c.cause.dep.dependency_type = "required"
        /\ Resolved(r) =>
              Pairs(req[r].files_to_download)
                \subseteq ExpectedFiles(registry, req[r].body.mods, req[r].body.mc_version)

\* an expanded version has an edge of another kind to a project that has a
\* version and files, and those files are not in the mapping
C4_Witness ==
    /\ Resolved(1)
    /\ req[1].status = 200
    /\ \E j \in DOMAIN req[1].expanded :
         LET ver == Index0(registry, SlugOf[req[1].expanded[j].project], req[1].body.mc_version)
         IN \E k \in DOMAIN ver.dependencies :
              LET dep == ver.dependencies[k]
                  target == SlugOf[dep.project_id]
              IN /\ dep.dependency_type \in DepTypes \ {"required"}
                 /\ HasVersions(registry, target, req[1].body.mc_version)
                 /\ FilePairs(Index0(registry, target, req[1].body.mc_version)) # {}
                 /\ FilePairs(Index0(registry, target, req[1].body.mc_version))
                      \cap Pairs(req[1].files_to_download) = {}

(***************************************************************************)
(* C5: if every requested root has an empty version list, the request      *)
(* ends with the 404 and no mapping.                                       *)
(***************************************************************************)
EmptyVersionList(reg, slug, mc) ==
    LET resp == VersionEndpoint(reg, slug, mc)
    IN ~resp.raised /\ (resp.status_code # 200 \/ resp.json = <<>>)

AllRootsEmpty(r) ==
    /\ req[r].body.mods # <<>>
    /\ req[r].body.mc_version # ""
    /\ \A j \in DOMAIN req[r].body.mods :
          EmptyVersionList(registry, req[r].body.mods[j], req[r].body.mc_version)

C5_AllRootsEmptyIs404 ==
    \A r \in Reqs :
        (Done(r) /\ AllRootsEmpty(r))
        => (req[r].status = 404 /\ req[r].files_to_download = EmptyDict)

\* two roots, neither with a version for the release
C5_Witness ==
    /\ Done(1)
    /\ AllRootsEmpty(1)
    /\ Len(req[1].body.mods) = 2
    /\ req[1].status = 404

(***************************************************************************)
(* C6: the request ends with the 404 only if every root has an empty       *)
(* version list.                                                           *)
(***************************************************************************)
C6_404OnlyIfAllRootsEmpty ==
    \A r \in Reqs :
        (Done(r) /\ req[r].status = 404) => AllRootsEmpty(r)

(***************************************************************************)
(* C8: no failure of a registry call, a status other than 200 or a         *)
(* transport error, ends the request with an exception.                    *)
(***************************************************************************)
C8_NoRegistryFailurePropagates ==
    \A r \in Reqs : req[r].status # 500

(***************************************************************************)
(* C7: a required edge that does not resolve (its project lookup answers   *)
(* another status than 200, or the package has no version for the          *)
(* release) is passed over: no error, nothing pushed, on to the next edge; *)
(* and the request ends as it does on the registry without that edge.      *)
(***************************************************************************)
Unresolvable(reg, dep, mc) ==
    LET resp == ProjectEndpoint(reg, dep.project_id)
    IN /\ dep.dependency_type = "required"
       /\ ~resp.raised
       /\ resp.status_code # 200 \/ EmptyVersionList(reg, resp.json.slug, mc)

SameAnswer(q, r) ==
    /\ req[q].status = req[r].status
    /\ req[q].files_to_download = req[r].files_to_download

EdgeRemoved(p, k) ==
    /\ Done(1) /\ Done(2)
    /\ req[1].body = req[2].body
    /\ k \in DOMAIN req[1].snapshot.deps[p]
    /\ req[2].snapshot = RemoveEdge(req[1].snapshot, p, k)

SkipsEdge(r) ==
    LET R == req[r]
    IN (/\ R.pc \in {"deps", "dep_versions"}
        /\ R.d \in DOMAIN R.ver.dependencies
        /\ Unresolvable(registry, R.ver.dependencies[R.d], R.body.mc_version)
        /\ req'[r] # R)
       => /\ req'[r].to_process = R.to_process
          /\ req'[r].status # 500
          /\ \/ req'[r].pc = "dep_versions" /\ req'[r].d = R.d
             \/ req'[r].pc = "deps" /\ req'[r].d = R.d + 1

C7_UnresolvableEdgeIsSkipped ==
    /\ [](\A p \in Projects : \A k \in 1..(MaxEdges + 1) :
            (EdgeRemoved(p, k)
             /\ Unresolvable(req[1].snapshot, req[1].snapshot.deps[p][k], req[1].body.mc_version))
            => SameAnswer(1, 2))
    /\ [][\A r \in Reqs : SkipsEdge(r)]_vars

\* a version with an edge that does not resolve before one that does; the
\* first is removed, and both requests return the same two files or more
C7_Witness ==
    /\ req[1].status = 200
    /\ SameAnswer(1, 2)
    /\ Cardinality(DOMAIN req[2].files_to_download) >= 2
    /\ \E p \in Projects :
         /\ EdgeRemoved(p, 1)
         /\ Len(req[1].snapshot.deps[p]) = 2
         /\ Unresolvable(req[1].snapshot, req[1].snapshot.deps[p][1], req[1].body.mc_version)
         /\ Resolves(req[1].snapshot, req[1].snapshot.deps[p][2], req[1].body.mc_version)
         /\ Expansions(1, p, 0) >= 1

(***************************************************************************)
(* C9: with some roots that have no version and some that have one, the    *)
(* request ends as the request for only the roots that have one: the       *)
(* others are skipped, with no error of their own.                         *)
(***************************************************************************)
RECURSIVE RootsKept(_, _, _)
RootsKept(reg, mods, mc) ==
    IF mods = <<>> THEN <<>>
    ELSE (IF EmptyVersionList(reg, Head(mods), mc) THEN <<>> ELSE <<Head(mods)>>)
           \o RootsKept(reg, Tail(mods), mc)

C9_RootsWithoutVersionAreSkipped ==
    LET mods == req[1].body.mods
        mc == req[1].body.mc_version
    IN (/\ Done(1) /\ Done(2)
        /\ req[2].snapshot = req[1].snapshot
        /\ req[2].body.mc_version = mc
        /\ req[2].body.mods = RootsKept(req[1].snapshot, mods, mc)
        /\ req[2].body.mods # <<>>
        /\ req[2].body.mods # mods)
       => SameAnswer(1, 2)

\* of two roots the first has no version; both requests return the files
\* of the second
C9_Witness ==
    /\ Done(1) /\ Done(2)
    /\ Len(req[1].body.mods) = 2
    /\ EmptyVersionList(req[1].snapshot, req[1].body.mods[1], req[1].body.mc_version)
    /\ req[2].body.mods = <<req[1].body.mods[2]>>
    /\ req[1].status = 200
    /\ SameAnswer(1, 2)

(***************************************************************************)
(* C10: the same body posted twice against an unchanged registry gets      *)
(* the same answer: nothing the first request left changes the second.     *)
(***************************************************************************)
C10_SameRequestSameMapping ==
    (/\ Done(1) /\ Done(2)
     /\ req[2].snapshot = req[1].snapshot
     /\ req[2].body = req[1].body)
    => SameAnswer(1, 2)

\* two roots with a dependency, resolved twice to the same three files
C10_Witness ==
    /\ Done(1) /\ Done(2)
    /\ req[2].snapshot = req[1].snapshot
    /\ req[2].body = req[1].body
    /\ req[2].status = 200
    /\ Len(req[2].body.mods) = 2
    /\ Cardinality(DOMAIN req[2].files_to_download) = 3
    /\ req[1].files_to_download = req[2].files_to_download

(***************************************************************************)
(* C11: the archive step tolerates the failure of single downloads: a      *)
(* file of the mapping is in the archive if and only if its GET answered   *)
(* 200; no download ends the request with an error; every entry of the     *)
(* mapping is fetched and the archive is sent.                             *)
(***************************************************************************)
C11_ArchiveToleratesFailedDownloads ==
    \A r \in Reqs :
        LET R == req[r]
        IN /\ R.pc = "archive" => R.status = 0
           /\ R.status = 500 => DOMAIN R.fetched = {}
           /\ (Done(r) /\ DOMAIN R.files_to_download # {} /\ R.status # 500) =>
                /\ R.status = 200
                /\ DOMAIN R.fetched = DOMAIN R.files_to_download
                /\ \A f \in DOMAIN R.files_to_download :
                      (f \in DOMAIN R.archive) <=>
                         (~R.fetched[f].raised /\ R.fetched[f].status_code = 200)
                /\ \A f \in DOMAIN R.archive : R.archive[f] = R.files_to_download[f]

\* three files: one answered 404, one raised, one is in the archive sent
C11_Witness ==
    /\ Done(1)
    /\ req[1].status = 200
    /\ Cardinality(DOMAIN req[1].fetched) = 3
    /\ Cardinality(DOMAIN req[1].archive) = 1
    /\ \E f \in DOMAIN req[1].fetched : req[1].fetched[f].raised
    /\ \E f \in DOMAIN req[1].fetched : req[1].fetched[f].status_code = 404

(***************************************************************************)
(* C12: on a filename collision the last write wins: the mapping of a      *)
(* request that resolved holds, for every filename carried by an expanded  *)
(* version, the URL of the file of that name in the version expanded       *)
(* last, over the walks of all roots in request order; it holds no other   *)
(* filename.                                                               *)
(***************************************************************************)
ExpandedVersion(r, j) ==
    Index0(req[r].snapshot, SlugOf[req[r].expanded[j].project], req[r].body.mc_version)

\* the expansions of request r that carry a file named f
Carriers(r, f) == {j \in DOMAIN req[r].expanded : f \in FileNames(ExpandedVersion(r, j))}

LastCarrier(r, f) == CHOOSE j \in Carriers(r, f) : \A i \in Carriers(r, f) : i <= j

C12_LastWriteWins ==
    \A r \in Reqs :
        LET R == req[r]
        IN Resolved(r) =>
             /\ DOMAIN R.files_to_download =
                   UNION {FileNames(ExpandedVersion(r, j)) : j \in DOMAIN R.expanded}
             /\ \A f \in DOMAIN R.files_to_download :
                   <<f, R.files_to_download[f]>> \in FilePairs(ExpandedVersion(r, LastCarrier(r, f)))

\* two versions expanded in one walk carry the same filename with two URLs
C12_Witness ==
    /\ Resolved(1)
    /\ req[1].status = 200
    /\ \E f \in DOMAIN req[1].files_to_download :
          \E i, j \in Carriers(1, f) :
             /\ i < j
             /\ req[1].expanded[i].call = req[1].expanded[j].call
             /\ FilePairs(ExpandedVersion(1, i)) # FilePairs(ExpandedVersion(1, j))
             /\ <<f, req[1].files_to_download[f]>> \in FilePairs(ExpandedVersion(1, j))

(***************************************************************************)
(* C13: the removal order does not matter: whichever element of the        *)
(* frontier each step removes, when no two chosen versions share a         *)
(* filename every walk, when it returns to the loop over the mods, has     *)
(* expanded the same set of projects, and the request ends with the same   *)
(* mapping, both fixed by the registry and the request alone.              *)
(***************************************************************************)
C13_RemovalOrderDoesNotMatter ==
    \A r \in Reqs :
        LET R == req[r]
            mc == R.body.mc_version
        IN /\ (R.pc = "roots" /\ NoSharedFilename(R.snapshot, R.body.mods, mc)) =>
                \A k \in DOMAIN R.body.mods :
                   Returned(r, k) => {SlugOf[p] : p \in ExpandedIn(r, k)} = ReachableInCall(r, k)
           /\ (Resolved(r) /\ NoSharedFilename(R.snapshot, R.body.mods, mc)) =>
                Pairs(R.files_to_download) = ExpectedFiles(R.snapshot, R.body.mods, mc)

\* a root with two required dependencies, expanded first-in first-out,
\* which pop() never does
C13_Witness ==
    /\ Resolved(1)
    /\ req[1].status = 200
    /\ NoSharedFilename(registry, req[1].body.mods, req[1].body.mc_version)
    /\ registry.deps["P1"] = <<Edge("P2", "required"), Edge("P3", "required")>>
    /\ req[1].expanded = <<[call |-> 1, project |-> "P1"], [call |-> 1, project |-> "P2"],
                           [call |-> 1, project |-> "P3"]>>
    /\ Cardinality(DOMAIN req[1].files_to_download) = 3

(***************************************************************************)
(* resolve_dependencies and the loop of api_download run alone, as         *)
(* functions of the registry: the mapping a request ends with when no      *)
(* other request runs and no registry call raises.                         *)
(***************************************************************************)
RECURSIVE NewVersions(_, _, _)
NewVersions(reg, deps, mc) ==
    IF deps = <<>> THEN <<>>
    ELSE LET dep == Head(deps)
             more == NewVersions(reg, Tail(deps), mc)
         IN IF dep.dependency_type = "required" /\ Resolves(reg, dep, mc)
            THEN <<Index0(reg, SlugOf[dep.project_id], mc)>> \o more
            ELSE more

RECURSIVE Walk(_, _, _, _, _)
Walk(reg, mc, frontier, visited, files) ==
    IF frontier = <<>> THEN files
    ELSE LET n == Len(frontier)
             ver == frontier[n]
             rest == SubSeq(frontier, 1, n - 1)
         IN IF ver.project_id \in visited
            THEN Walk(reg, mc, rest, visited, files)
            ELSE Walk(reg, mc, rest \o NewVersions(reg, ver.dependencies, mc),
                      visited \cup {ver.project_id}, add_version_files(ver.files, files))

RECURSIVE Alone(_, _, _, _)
Alone(reg, mods, mc, files) ==
    IF mods = <<>> THEN files
    ELSE IF ~HasVersions(reg, Head(mods), mc) THEN Alone(reg, Tail(mods), mc, files)
    ELSE Alone(reg, Tail(mods), mc,
               Update(files, Walk(reg, mc, <<Index0(reg, Head(mods), mc)>>, {}, EmptyDict)))

(***************************************************************************)
(* C14: a call owns its frontier, visited-set and mapping: with two        *)
(* requests interleaved one registry call at a time, a request that        *)
(* resolved ends with the mapping it ends with when run alone, and each    *)
(* of its walks has expanded every project it reaches, those the other     *)
(* request has marked visited included.                                    *)
(***************************************************************************)
C14_InterleavedRequestsDoNotInterfere ==
    \A r \in Reqs :
        LET R == req[r]
        IN Resolved(r) =>
             /\ R.files_to_download = Alone(R.snapshot, R.body.mods, R.body.mc_version, EmptyDict)
             /\ \A k \in DOMAIN R.body.mods :
                   {SlugOf[p] : p \in ExpandedIn(r, k)} = ReachableInCall(r, k)

\* request 2, posted while request 1 was served, has resolved to three
\* files while request 1 is still in a walk, and has expanded a project
\* that request 1 holds in its visited-set
C14_Witness ==
    /\ InCall(1)
    /\ Resolved(2)
    /\ req[2].status = 200
    /\ Cardinality(DOMAIN req[2].files_to_download) = 3
    /\ \E p \in req[1].processed_projects : Expansions(2, p, 0) > 0

(***************************************************************************)
(* C15: every version-list query of a request, for a root or for a         *)
(* dependency at any depth, asks for the release version of the request    *)
(* body, unchanged, and for the fabric loader.                             *)
(***************************************************************************)
VersionQueries(r) == {c \in req[r].calls : c.op = "version"}

C15_ReleasePassedToEveryQuery ==
    \A r \in Reqs :
        \A c \in VersionQueries(r) :
            /\ c.mc = req[r].body.mc_version
            /\ c.loaders = <<"fabric">>

\* a query for the root, one for its dependency and one for a dependency
\* of that dependency
C15_Witness ==
    /\ Resolved(1)
    /\ Len(req[1].body.mods) = 1
    /\ \E c, d, e \in VersionQueries(1) :
          /\ c.cause = RootCause
          /\ d.cause.from = ProjectOf(c.arg)
          /\ e.cause.from = ProjectOf(d.arg)
          /\ Cardinality({c.arg, d.arg, e.arg}) = 3
          /\ e.mc = req[1].body.mc_version

(***************************************************************************)
(* C16: in every state of the loop of resolve_dependencies, every entry    *)
(* of the accumulating mapping is a file of the chosen version of a        *)
(* project in processed_projects; every version on the frontier, and the   *)
(* one being expanded, is the chosen version of the root or element 0 of   *)
(* the version list of the target of a required edge of a project in       *)
(* processed_projects; and no step of the loop takes a project out of      *)
(* processed_projects.                                                     *)
(***************************************************************************)
Chosen(r, p) == Index0(req[r].snapshot, SlugOf[p], req[r].body.mc_version)

FromRequiredEdge(r, ver) ==
    \E p \in req[r].processed_projects :
        \E j \in DOMAIN Chosen(r, p).dependencies :
            LET dep == Chosen(r, p).dependencies[j]
            IN /\ dep.dependency_type = "required"
               /\ HasVersions(req[r].snapshot, SlugOf[dep.project_id], req[r].body.mc_version)
               /\ ver = Chosen(r, dep.project_id)

LoopInvariant(r) ==
    LET R == req[r]
        root == Chosen(r, ProjectOf(R.body.mods[R.i]))
    IN InCall(r) =>
         /\ \A f \in DOMAIN R.deps_files :
               \E p \in R.processed_projects : <<f, R.deps_files[f]>> \in FilePairs(Chosen(r, p))
         /\ \A j \in DOMAIN R.to_process :
               R.to_process[j] = root \/ FromRequiredEdge(r, R.to_process[j])
         /\ R.pc \in {"deps", "dep_versions"} =>
               /\ R.ver.project_id \in R.processed_projects
               /\ R.ver = root \/ FromRequiredEdge(r, R.ver)

VisitedOnlyGrows(r) ==
    (InCall(r) /\ InCall(r)') => req[r].processed_projects \subseteq req[r]'.processed_projects

C16_LoopInvariants ==
    /\ [](\A r \in Reqs : LoopInvariant(r))
    /\ [][\A r \in Reqs : VisitedOnlyGrows(r)]_vars

\* in the loop with two projects visited, their two files in the mapping
\* and the version of a dependency of the second on the frontier
C16_Witness ==
    /\ req[1].pc = "loop"
    /\ Cardinality(req[1].processed_projects) = 2
    /\ Cardinality(DOMAIN req[1].deps_files) = 2
    /\ Len(req[1].to_process) = 1
    /\ req[1].to_process[1].project_id \notin req[1].processed_projects
    /\ req[1].to_process[1] # Chosen(1, ProjectOf(req[1].body.mods[req[1].i]))

(***************************************************************************)
(* C17: a request whose body has no (or an empty) release version, or no   *)
(* (or an empty) list of mods, is answered 400 in its first step: it has   *)
(* issued no registry query and no download, and has neither a mapping nor *)
(* an archive.                                                             *)
(***************************************************************************)
C17_BadRequestIsRejectedFirst ==
    \A r \in Reqs :
        LET R == req[r]
        IN (R.pc # "idle" /\ (R.body.mc_version = "" \/ R.body.mods = <<>>)) =>
             /\ Done(r)
             /\ R.status = 400
             /\ R.calls = {}
             /\ R.expanded = <<>>
             /\ DOMAIN R.files_to_download = {}
             /\ DOMAIN R.fetched = {}
             /\ DOMAIN R.archive = {}

\* two mods and no release version, on a registry where both have a version
C17_Witness ==
    /\ Done(1)
    /\ req[1].status = 400
    /\ req[1].body.mc_version = ""
    /\ Len(req[1].body.mods) = 2
    /\ \A j \in DOMAIN req[1].body.mods : HasVersions(registry, req[1].body.mods[j], Supported)

====
